---- MODULE Spec2Model ----
(***************************************************************************)
(* Model of rust-sdk/core/src/quote/fees.rs: collect_fees_quote, the fees  *)
(* owed to a concentrated-liquidity position.                              *)
(*                                                                         *)
(* Integer widths are scaled: the source works in Q64.64 (u128 values, a   *)
(* U256 intermediate, a right shift by 64).  The model keeps the ratios    *)
(* 1 : 2 : 4 between the shift, the narrow width and the wide width, with  *)
(* the shift distance FracBits as the bound.                               *)
(***************************************************************************)
EXTENDS Integers, FiniteSets, TLC

\* Bound: the number of fraction bits of the fixed-point format (64 in the
\* source, fees.rs:67).
FracBits == 2

U128_BITS == 2 * FracBits
U256_BITS == 4 * FracBits
U128_MAX == 2 ^ U128_BITS - 1
U256_MAX == 2 ^ U256_BITS - 1
\* 1.0 in the fixed-point format
ONE == 2 ^ FracBits

Min(a, b) == IF a < b THEN a ELSE b

----------------------------------------------------------------------------
(* Integer primitives used by the function                                 *)

\* Mutant: the subtraction wraps modulo 2^128 (u128::wrapping_sub)
wrapping_sub(a, b) == (a - b) % (2 ^ (2 * FracBits))

\* u128::saturating_sub
saturating_sub(a, b) == IF b > a THEN 0 ELSE a - b

\* U256::from(u128) / .into(): widening, value preserving
U256_from(a) == a

\* U256::saturating_sub
U256_saturating_sub(a, b) == IF b > a THEN 0 ELSE a - b

\* Mutant: the product saturates at the narrow width (multiplying in u128)
U256_saturating_mul_narrow(a, b) == Min(a * b, 2 ^ (2 * FracBits) - 1)

\* U256::saturating_mul
U256_saturating_mul(a, b) == Min(a * b, U256_MAX)

\* Shr::shr on U256
shr(a, n) == a \div (2 ^ n)

\* u128::try_from(U256): Err when the value does not fit
try_into_u128(x) ==
    IF x <= U128_MAX THEN [is_ok |-> TRUE, value |-> x]
                     ELSE [is_ok |-> FALSE, value |-> 0]

\* `a + b` on u128: with overflow checks the addition panics on overflow,
\* without them it wraps modulo 2^128.
add_u128(a, b, overflow_checks) ==
    IF a + b <= U128_MAX THEN [panicked |-> FALSE, value |-> a + b]
    ELSE IF overflow_checks THEN [panicked |-> TRUE, value |-> 0]
    ELSE [panicked |-> FALSE, value |-> (a + b) % (2 ^ U128_BITS)]

----------------------------------------------------------------------------
(* Transfer fee adjustment (crate::adjust_amount, crate::TransferFee)      *)

BPS_DENOMINATOR == 10000

NoTransferFee == [is_some |-> FALSE, fee_bps |-> 0, max_fee |-> 0]
SomeTransferFee(bps, max) == [is_some |-> TRUE, fee_bps |-> bps, max_fee |-> max]

CeilDiv(x, d) == (x + d - 1) \div d

\* The non-inverse direction: the fee taken from a gross amount.
adjust_amount(amount, transfer_fee, inverse) ==
    IF ~transfer_fee.is_some THEN amount
    ELSE LET fee == Min(transfer_fee.max_fee,
                        CeilDiv(amount * transfer_fee.fee_bps, BPS_DENOMINATOR))
         IN saturating_sub(amount, fee)

----------------------------------------------------------------------------
(* collect_fees_quote, line by line                                        *)

\* Mutant: the lower correction is left out
fee_growth_below_a_uncorrected(whirlpool, position, tick_lower) ==
    tick_lower.fee_growth_outside_a

\* Mutant: the lower boundary is treated as out of range (<= for <)
fee_growth_below_a_inclusive(whirlpool, position, tick_lower) ==
    IF whirlpool.tick_current_index <= position.tick_lower_index
    THEN saturating_sub(whirlpool.fee_growth_global_a, tick_lower.fee_growth_outside_a)
    ELSE tick_lower.fee_growth_outside_a

fee_growth_below_a(whirlpool, position, tick_lower) ==
    IF whirlpool.tick_current_index < position.tick_lower_index
    THEN saturating_sub(whirlpool.fee_growth_global_a, tick_lower.fee_growth_outside_a)
    ELSE tick_lower.fee_growth_outside_a

\* Mutant: token B's lower correction reads token A's global growth
fee_growth_below_b_global_a(whirlpool, position, tick_lower) ==
    IF whirlpool.tick_current_index < position.tick_lower_index
    THEN saturating_sub(whirlpool.fee_growth_global_a, tick_lower.fee_growth_outside_b)
    ELSE tick_lower.fee_growth_outside_b

fee_growth_below_b(whirlpool, position, tick_lower) ==
    IF whirlpool.tick_current_index < position.tick_lower_index
    THEN saturating_sub(whirlpool.fee_growth_global_b, tick_lower.fee_growth_outside_b)
    ELSE tick_lower.fee_growth_outside_b

\* Mutant: the upper boundary is treated as in range (> for >=)
fee_growth_above_a_strict(whirlpool, position, tick_upper) ==
    IF whirlpool.tick_current_index > position.tick_upper_index
    THEN saturating_sub(whirlpool.fee_growth_global_a, tick_upper.fee_growth_outside_a)
    ELSE tick_upper.fee_growth_outside_a

fee_growth_above_a(whirlpool, position, tick_upper) ==
    IF whirlpool.tick_current_index >= position.tick_upper_index
    THEN saturating_sub(whirlpool.fee_growth_global_a, tick_upper.fee_growth_outside_a)
    ELSE tick_upper.fee_growth_outside_a

fee_growth_above_b(whirlpool, position, tick_upper) ==
    IF whirlpool.tick_current_index >= position.tick_upper_index
    THEN saturating_sub(whirlpool.fee_growth_global_b, tick_upper.fee_growth_outside_b)
    ELSE tick_upper.fee_growth_outside_b

fee_growth_inside_a(whirlpool, below_a, above_a) ==
    saturating_sub(saturating_sub(whirlpool.fee_growth_global_a, below_a), above_a)

fee_growth_inside_b(whirlpool, below_b, above_b) ==
    saturating_sub(saturating_sub(whirlpool.fee_growth_global_b, below_b), above_b)

\* The U256 value before narrowing
fee_owed_delta_a(position, inside_a) ==
    shr(U256_saturating_mul(
            U256_saturating_sub(U256_from(inside_a),
                                U256_from(position.fee_growth_checkpoint_a)),
            U256_from(position.liquidity)),
        FracBits)

fee_owed_delta_b(position, inside_b) ==
    shr(U256_saturating_mul(
            U256_saturating_sub(U256_from(inside_b),
                                U256_from(position.fee_growth_checkpoint_b)),
            U256_from(position.liquidity)),
        FracBits)

\* Mutant: the banked amount is dropped, only the delta is withdrawable
withdrawable_fee_a_delta_only(position, delta_a, overflow_checks) ==
    add_u128(0, delta_a, overflow_checks)

withdrawable_fee_a(position, delta_a, overflow_checks) ==
    add_u128(position.fee_owed_a, delta_a, overflow_checks)

withdrawable_fee_b(position, delta_b, overflow_checks) ==
    add_u128(position.fee_owed_b, delta_b, overflow_checks)

\* Mutant: the transfer fee is taken twice
fee_owed_a_twice(withdrawable_a, transfer_fee_a) ==
    adjust_amount(adjust_amount(withdrawable_a, transfer_fee_a, FALSE), transfer_fee_a, FALSE)

fee_owed_a(withdrawable_a, transfer_fee_a) ==
    adjust_amount(withdrawable_a, transfer_fee_a, FALSE)

fee_owed_b(withdrawable_b, transfer_fee_b) ==
    adjust_amount(withdrawable_b, transfer_fee_b, FALSE)

NoQuote == [fee_owed_a |-> 0, fee_owed_b |-> 0]

\* The whole function.  The result records every local together with how
\* the call ended: "ok" (a CollectFeesQuote is returned), "panic_narrow"
\* (unwrap of a failed try_into) or "panic_add" (checked `+` overflow).
collect_fees_quote(whirlpool, position, tick_lower, tick_upper, transfer_fee_a, transfer_fee_b, overflow_checks) ==
    LET below_a  == fee_growth_below_a(whirlpool, position, tick_lower)
        below_b  == fee_growth_below_b(whirlpool, position, tick_lower)
        above_a  == fee_growth_above_a(whirlpool, position, tick_upper)
        above_b  == fee_growth_above_b(whirlpool, position, tick_upper)
        inside_a == fee_growth_inside_a(whirlpool, below_a, above_a)
        inside_b == fee_growth_inside_b(whirlpool, below_b, above_b)
        wide_a   == fee_owed_delta_a(position, inside_a)
        wide_b   == fee_owed_delta_b(position, inside_b)
        delta_a  == try_into_u128(wide_a)
        delta_b  == try_into_u128(wide_b)
        with_a   == withdrawable_fee_a(position, delta_a.value, overflow_checks)
        with_b   == withdrawable_fee_b(position, delta_b.value, overflow_checks)
        narrowed == delta_a.is_ok /\ delta_b.is_ok
        added    == narrowed /\ ~with_a.panicked /\ ~with_b.panicked
    IN  [ outcome |-> IF ~narrowed THEN "panic_narrow"
                      ELSE IF ~added THEN "panic_add"
                      ELSE "ok",
          fee_growth_below_a  |-> below_a,
          fee_growth_below_b  |-> below_b,
          fee_growth_above_a  |-> above_a,
          fee_growth_above_b  |-> above_b,
          fee_growth_inside_a |-> inside_a,
          fee_growth_inside_b |-> inside_b,
          fee_owed_delta_a    |-> wide_a,
          fee_owed_delta_b    |-> wide_b,
          withdrawable_fee_a  |-> IF added THEN with_a.value ELSE 0,
          withdrawable_fee_b  |-> IF added THEN with_b.value ELSE 0,
          quote |-> IF added
                    THEN [fee_owed_a |-> fee_owed_a(with_a.value, transfer_fee_a),
                          fee_owed_b |-> fee_owed_b(with_b.value, transfer_fee_b)]
                    ELSE NoQuote ]

----------------------------------------------------------------------------
(* Inputs                                                                  *)

\* The position's range and the pool ticks around it, as in the tests:
\* below the range, on the lower boundary, inside, on the upper boundary,
\* above.
TickLowerIndex == 5
TickUpperIndex == 10
TickCurrentValues == {0, 5, 7, 10, 15}

LiquidityValues == {1, ONE, U128_MAX}

GlobalValuesA == {0, ONE, U128_MAX}
LowerOutsideValuesA == {0, ONE, U128_MAX}
UpperOutsideValuesA == {ONE, U128_MAX}
CheckpointValuesA == {0, U128_MAX - ONE}
\* `position.fee_owed_a as u128` widens the banked amount: the samples fit a
\* field of half the accumulator width as well as a full-width one.
FeeOwedValuesA == {0, 1, ONE - 1}
TransferFeesA == {NoTransferFee, SomeTransferFee(2000, U128_MAX), SomeTransferFee(5000, 1)}

GlobalValuesB == {ONE + 1, U128_MAX}
LowerOutsideValuesB == {1, U128_MAX}
UpperOutsideValuesB == {0, ONE + 1}
CheckpointValuesB == {0}
FeeOwedValuesB == {0, ONE - 1}
TransferFeesB == {NoTransferFee, SomeTransferFee(5000, U128_MAX)}

Whirlpools ==
    [tick_current_index : TickCurrentValues,
     fee_growth_global_a : GlobalValuesA,
     fee_growth_global_b : GlobalValuesB]

Positions ==
    [liquidity : LiquidityValues,
     tick_lower_index : {TickLowerIndex},
     tick_upper_index : {TickUpperIndex},
     fee_growth_checkpoint_a : CheckpointValuesA,
     fee_owed_a : FeeOwedValuesA,
     fee_growth_checkpoint_b : CheckpointValuesB,
     fee_owed_b : FeeOwedValuesB]

LowerTicks == [fee_growth_outside_a : LowerOutsideValuesA, fee_growth_outside_b : LowerOutsideValuesB]
UpperTicks == [fee_growth_outside_a : UpperOutsideValuesA, fee_growth_outside_b : UpperOutsideValuesB]

----------------------------------------------------------------------------
(* State machine: a caller invokes the function and consumes the outcome   *)

VARIABLES whirlpool, position, tick_lower, tick_upper,
          transfer_fee_a, transfer_fee_b, call

vars == <<whirlpool, position, tick_lower, tick_upper,
          transfer_fee_a, transfer_fee_b, call>>

DefaultWhirlpool == [tick_current_index |-> 0, fee_growth_global_a |-> 0, fee_growth_global_b |-> 0]
DefaultPosition ==
    [liquidity |-> 0, tick_lower_index |-> TickLowerIndex, tick_upper_index |-> TickUpperIndex,
     fee_growth_checkpoint_a |-> 0, fee_owed_a |-> 0,
     fee_growth_checkpoint_b |-> 0, fee_owed_b |-> 0]
DefaultTick == [fee_growth_outside_a |-> 0, fee_growth_outside_b |-> 0]

Idle == [outcome |-> "idle"]

Init ==
    /\ whirlpool = DefaultWhirlpool
    /\ position = DefaultPosition
    /\ tick_lower = DefaultTick
    /\ tick_upper = DefaultTick
    /\ transfer_fee_a = NoTransferFee
    /\ transfer_fee_b = NoTransferFee
    /\ call = Idle

Call(w, p, tl, tu, tfa, tfb, overflow_checks) ==
    /\ whirlpool' = w
    /\ position' = p
    /\ tick_lower' = tl
    /\ tick_upper' = tu
    /\ transfer_fee_a' = tfa
    /\ transfer_fee_b' = tfb
    /\ call' = collect_fees_quote(w, p, tl, tu, tfa, tfb, overflow_checks)

Return ==
    /\ call.outcome # "idle"
    /\ whirlpool' = DefaultWhirlpool
    /\ position' = DefaultPosition
    /\ tick_lower' = DefaultTick
    /\ tick_upper' = DefaultTick
    /\ transfer_fee_a' = NoTransferFee
    /\ transfer_fee_b' = NoTransferFee
    /\ call' = Idle

\* The caller: one call at a time, with any inputs and either build setting.
Invoke ==
    /\ call.outcome = "idle"
    /\ \E w \in Whirlpools, p \in Positions, tl \in LowerTicks, tu \in UpperTicks,
          tfa \in TransferFeesA, tfb \in TransferFeesB, overflow_checks \in BOOLEAN :
            Call(w, p, tl, tu, tfa, tfb, overflow_checks)

Next == Invoke \/ Return

Spec == Init /\ [][Next]_vars

----------------------------------------------------------------------------
(* A second caller: one token in range with nothing outside, so that the   *)
(* growth delta and the liquidity each run over the whole narrow width.    *)

WideCheckpointValues == {0, 1, ONE, U128_MAX}

WideWhirlpools ==
    [tick_current_index : {7},
     fee_growth_global_a : 0 .. U128_MAX,
     fee_growth_global_b : {0}]

WidePositions ==
    [liquidity : 0 .. U128_MAX,
     tick_lower_index : {TickLowerIndex},
     tick_upper_index : {TickUpperIndex},
     fee_growth_checkpoint_a : WideCheckpointValues,
     fee_owed_a : {0},
     fee_growth_checkpoint_b : {0},
     fee_owed_b : {0}]

InvokeWide ==
    /\ call.outcome = "idle"
    /\ \E w \in WideWhirlpools, p \in WidePositions, overflow_checks \in BOOLEAN :
            Call(w, p, DefaultTick, DefaultTick, NoTransferFee, NoTransferFee,
                 overflow_checks)

NextWide == InvokeWide \/ Return

SpecWide == Init /\ [][NextWide]_vars

----------------------------------------------------------------------------
(* State predicates shared by the properties                               *)

Returned == call.outcome # "idle"
Ok == call.outcome = "ok"
ValidRange == position.tick_lower_index < position.tick_upper_index
BelowRange == whirlpool.tick_current_index < position.tick_lower_index
AboveRange == whirlpool.tick_current_index >= position.tick_upper_index

\* The growth delta and the scaled product in unbounded integers
GrowthDeltaA == IF position.fee_growth_checkpoint_a >= call.fee_growth_inside_a
                THEN 0 ELSE call.fee_growth_inside_a - position.fee_growth_checkpoint_a
GrowthDeltaB == IF position.fee_growth_checkpoint_b >= call.fee_growth_inside_b
                THEN 0 ELSE call.fee_growth_inside_b - position.fee_growth_checkpoint_b
ExactDeltaA == (GrowthDeltaA * position.liquidity) \div ONE
ExactDeltaB == (GrowthDeltaB * position.liquidity) \div ONE

----------------------------------------------------------------------------
\* C1: whenever the scaled product of a call does not fit the narrow width,
\* the call ends in a typed error returned to the caller (no panic, no
\* truncated, zero or default amount).
C1_NarrowingOverflowIsTypedError ==
    (Returned /\ (ExactDeltaA > U128_MAX \/ ExactDeltaB > U128_MAX))
        => call.outcome = "error"

----------------------------------------------------------------------------
\* C2 (as stated): with the pool tick strictly below the range and the
\* global growth at least both outside snapshots, the fee delta of both
\* tokens is zero and, without transfer fees, the banked amounts are
\* returned.
GlobalCoversOutsideA ==
    /\ whirlpool.fee_growth_global_a >= tick_lower.fee_growth_outside_a
    /\ whirlpool.fee_growth_global_a >= tick_upper.fee_growth_outside_a
GlobalCoversOutsideB ==
    /\ whirlpool.fee_growth_global_b >= tick_lower.fee_growth_outside_b
    /\ whirlpool.fee_growth_global_b >= tick_upper.fee_growth_outside_b

C2_BelowRangeDeltaZero ==
    (Returned /\ ValidRange /\ BelowRange /\ GlobalCoversOutsideA /\ GlobalCoversOutsideB)
        => /\ call.fee_owed_delta_a = 0
           /\ call.fee_owed_delta_b = 0
           /\ (Ok /\ ~transfer_fee_a.is_some /\ ~transfer_fee_b.is_some)
                => /\ call.quote.fee_owed_a = position.fee_owed_a
                   /\ call.quote.fee_owed_b = position.fee_owed_b

\* C2 (amended): below the range the growth inside is the lower snapshot
\* minus the upper snapshot, whatever the global growth; the fee delta of a
\* token is zero when that difference does not exceed the checkpoint.
C2_BelowRangeDeltaZeroUpToCheckpoint ==
    (Returned /\ ValidRange /\ BelowRange) =>
        /\ (GlobalCoversOutsideA /\ tick_lower.fee_growth_outside_a
                <= tick_upper.fee_growth_outside_a + position.fee_growth_checkpoint_a)
            => /\ call.fee_owed_delta_a = 0
               /\ (Ok /\ ~transfer_fee_a.is_some)
                    => call.quote.fee_owed_a = position.fee_owed_a
        /\ (GlobalCoversOutsideB /\ tick_lower.fee_growth_outside_b
                <= tick_upper.fee_growth_outside_b + position.fee_growth_checkpoint_b)
            => /\ call.fee_owed_delta_b = 0
               /\ (Ok /\ ~transfer_fee_b.is_some)
                    => call.quote.fee_owed_b = position.fee_owed_b

\* A call below the range where the lower snapshot exceeds the upper one by
\* exactly the checkpoint, with growth and liquidity present.
C2_Witness ==
    /\ Ok /\ ValidRange /\ BelowRange /\ GlobalCoversOutsideA
    /\ tick_lower.fee_growth_outside_a > tick_upper.fee_growth_outside_a
    /\ tick_lower.fee_growth_outside_a
         = tick_upper.fee_growth_outside_a + position.fee_growth_checkpoint_a
    /\ position.liquidity >= ONE
    /\ position.fee_owed_a > 0
    /\ ~transfer_fee_a.is_some
    /\ call.quote.fee_owed_a = position.fee_owed_a

----------------------------------------------------------------------------
\* C3 (as stated): with the pool tick at or above the upper boundary and the
\* global growth at least both outside snapshots, the fee delta of both
\* tokens is zero and, without transfer fees, the banked amounts are
\* returned.
C3_AboveRangeDeltaZero ==
    (Returned /\ ValidRange /\ AboveRange /\ GlobalCoversOutsideA /\ GlobalCoversOutsideB)
        => /\ call.fee_owed_delta_a = 0
           /\ call.fee_owed_delta_b = 0
           /\ (Ok /\ ~transfer_fee_a.is_some /\ ~transfer_fee_b.is_some)
                => /\ call.quote.fee_owed_a = position.fee_owed_a
                   /\ call.quote.fee_owed_b = position.fee_owed_b

\* C3 (amended): at or above the range the growth inside is the upper
\* snapshot minus the lower snapshot; the fee delta of a token is zero when
\* that difference does not exceed the checkpoint.
C3_AboveRangeDeltaZeroUpToCheckpoint ==
    (Returned /\ ValidRange /\ AboveRange) =>
        /\ (GlobalCoversOutsideA /\ tick_upper.fee_growth_outside_a
                <= tick_lower.fee_growth_outside_a + position.fee_growth_checkpoint_a)
            => /\ call.fee_owed_delta_a = 0
               /\ (Ok /\ ~transfer_fee_a.is_some)
                    => call.quote.fee_owed_a = position.fee_owed_a
        /\ (GlobalCoversOutsideB /\ tick_upper.fee_growth_outside_b
                <= tick_lower.fee_growth_outside_b + position.fee_growth_checkpoint_b)
            => /\ call.fee_owed_delta_b = 0
               /\ (Ok /\ ~transfer_fee_b.is_some)
                    => call.quote.fee_owed_b = position.fee_owed_b

\* A call on the upper boundary where the upper snapshot exceeds the lower
\* one by exactly the checkpoint.
C3_Witness ==
    /\ Ok /\ ValidRange
    /\ whirlpool.tick_current_index = position.tick_upper_index
    /\ GlobalCoversOutsideA
    /\ tick_upper.fee_growth_outside_a > tick_lower.fee_growth_outside_a
    /\ tick_upper.fee_growth_outside_a
         = tick_lower.fee_growth_outside_a + position.fee_growth_checkpoint_a
    /\ position.liquidity >= ONE
    /\ position.fee_owed_a > 0
    /\ ~transfer_fee_a.is_some
    /\ call.quote.fee_owed_a = position.fee_owed_a

----------------------------------------------------------------------------
\* C4: the range is inclusive-lower / exclusive-upper.  On the lower
\* boundary the lower correction is not applied and the call ends as for any
\* tick strictly inside the range; on the upper boundary the upper
\* correction is applied and the call ends as for any tick strictly above
\* the range; the lower correction is applied only strictly below the range.
AtTick(t) == [whirlpool EXCEPT !.tick_current_index = t]

SameAsAtTick(t) ==
    \E overflow_checks \in BOOLEAN :
        call = collect_fees_quote(AtTick(t), position, tick_lower, tick_upper,
                                  transfer_fee_a, transfer_fee_b, overflow_checks)

UpperCorrectedA ==
    IF tick_upper.fee_growth_outside_a > whirlpool.fee_growth_global_a THEN 0
    ELSE whirlpool.fee_growth_global_a - tick_upper.fee_growth_outside_a
UpperCorrectedB ==
    IF tick_upper.fee_growth_outside_b > whirlpool.fee_growth_global_b THEN 0
    ELSE whirlpool.fee_growth_global_b - tick_upper.fee_growth_outside_b

C4_InclusiveLowerExclusiveUpper ==
    (Returned /\ ValidRange) =>
        /\ (whirlpool.tick_current_index = position.tick_lower_index) =>
              /\ call.fee_growth_below_a = tick_lower.fee_growth_outside_a
              /\ call.fee_growth_below_b = tick_lower.fee_growth_outside_b
              /\ \A t \in TickCurrentValues :
                    (position.tick_lower_index < t /\ t < position.tick_upper_index)
                        => SameAsAtTick(t)
        /\ (whirlpool.tick_current_index = position.tick_upper_index) =>
              /\ call.fee_growth_above_a = UpperCorrectedA
              /\ call.fee_growth_above_b = UpperCorrectedB
              /\ \A t \in TickCurrentValues :
                    (t > position.tick_upper_index) => SameAsAtTick(t)
        /\ ~BelowRange =>
              /\ call.fee_growth_below_a = tick_lower.fee_growth_outside_a
              /\ call.fee_growth_below_b = tick_lower.fee_growth_outside_b

\* A call on the lower boundary where the correction would have changed the
\* lower growth, and fees have accrued.
C4_Witness ==
    /\ Ok /\ ValidRange
    /\ whirlpool.tick_current_index = position.tick_lower_index
    /\ tick_lower.fee_growth_outside_a > 0
    /\ whirlpool.fee_growth_global_a - tick_lower.fee_growth_outside_a
         # tick_lower.fee_growth_outside_a
    /\ call.fee_owed_delta_b > 0
    /\ call.fee_growth_below_a = tick_lower.fee_growth_outside_a

----------------------------------------------------------------------------
\* C5: the fee delta before narrowing equals floor(d * l / 2^FracBits) in
\* unbounded integers, d the saturating difference of growth inside and
\* checkpoint and l the liquidity, over the whole narrow width of both.
C5_DeltaIsExactFloor ==
    Returned => /\ call.fee_owed_delta_a = ExactDeltaA
                /\ call.fee_owed_delta_b = ExactDeltaB

\* The largest growth delta times the largest liquidity.
C5_Witness ==
    /\ Returned
    /\ GrowthDeltaA = U128_MAX
    /\ position.liquidity = U128_MAX
    /\ call.fee_owed_delta_a > U128_MAX
    /\ (GrowthDeltaA * position.liquidity) % ONE # 0

----------------------------------------------------------------------------
\* C6: every accumulator subtraction yields zero when the subtrahend exceeds
\* the minuend and the exact difference otherwise, never a wrapped value; in
\* particular a checkpoint at or beyond the growth inside gives a zero delta.
ExactSatDiff(r, a, b) ==
    /\ r >= 0 /\ r <= a
    /\ (b > a) => r = 0
    /\ (b <= a) => r + b = a

C6_SubtractionsSaturate ==
    Returned =>
        /\ BelowRange =>
              /\ ExactSatDiff(call.fee_growth_below_a, whirlpool.fee_growth_global_a,
                              tick_lower.fee_growth_outside_a)
              /\ ExactSatDiff(call.fee_growth_below_b, whirlpool.fee_growth_global_b,
                              tick_lower.fee_growth_outside_b)
        /\ AboveRange =>
              /\ ExactSatDiff(call.fee_growth_above_a, whirlpool.fee_growth_global_a,
                              tick_upper.fee_growth_outside_a)
              /\ ExactSatDiff(call.fee_growth_above_b, whirlpool.fee_growth_global_b,
                              tick_upper.fee_growth_outside_b)
        /\ \E m \in 0 .. U128_MAX :
              /\ ExactSatDiff(m, whirlpool.fee_growth_global_a, call.fee_growth_below_a)
              /\ ExactSatDiff(call.fee_growth_inside_a, m, call.fee_growth_above_a)
        /\ \E m \in 0 .. U128_MAX :
              /\ ExactSatDiff(m, whirlpool.fee_growth_global_b, call.fee_growth_below_b)
              /\ ExactSatDiff(call.fee_growth_inside_b, m, call.fee_growth_above_b)
        /\ \E d \in 0 .. U128_MAX :
              /\ ExactSatDiff(d, call.fee_growth_inside_a, position.fee_growth_checkpoint_a)
              /\ call.fee_owed_delta_a = (d * position.liquidity) \div ONE
        /\ \E d \in 0 .. U128_MAX :
              /\ ExactSatDiff(d, call.fee_growth_inside_b, position.fee_growth_checkpoint_b)
              /\ call.fee_owed_delta_b = (d * position.liquidity) \div ONE
        /\ (position.fee_growth_checkpoint_a >= call.fee_growth_inside_a)
              => call.fee_owed_delta_a = 0
        /\ (position.fee_growth_checkpoint_b >= call.fee_growth_inside_b)
              => call.fee_owed_delta_b = 0

\* A call where the lower snapshot exceeds the global growth and the
\* checkpoint exceeds the growth inside.
C6_Witness ==
    /\ Returned /\ BelowRange
    /\ tick_lower.fee_growth_outside_a > whirlpool.fee_growth_global_a
    /\ whirlpool.fee_growth_global_a > 0
    /\ call.fee_growth_below_a = 0
    /\ tick_upper.fee_growth_outside_a > whirlpool.fee_growth_global_a
    /\ position.fee_growth_checkpoint_a > call.fee_growth_inside_a
    /\ position.liquidity > 0
    /\ call.fee_owed_delta_a = 0

----------------------------------------------------------------------------
\* C7: with a transfer-fee schedule present, the returned amount of a token
\* is W - min(cap, fee) saturating at zero, W the whole withdrawable amount
\* (banked + delta) and fee = W * basis_points / 10000 rounded up, each
\* token adjusted once with its own schedule.
NoWrapA == position.fee_owed_a + call.fee_owed_delta_a <= U128_MAX
NoWrapB == position.fee_owed_b + call.fee_owed_delta_b <= U128_MAX

\* The least f with f * 10000 >= W * basis_points
RoundedUpFee(W, bps) ==
    CHOOSE f \in 0 .. W + 1 :
        /\ f * BPS_DENOMINATOR >= W * bps
        /\ (f = 0 \/ (f - 1) * BPS_DENOMINATOR < W * bps)

ExpectedNet(W, schedule) ==
    LET fee == RoundedUpFee(W, schedule.fee_bps)
        taken == IF schedule.max_fee < fee THEN schedule.max_fee ELSE fee
    IN IF taken > W THEN 0 ELSE W - taken

C7_TransferFeeOnWholeAmount ==
    /\ Ok =>
        /\ transfer_fee_a.is_some =>
              /\ call.quote.fee_owed_a = ExpectedNet(call.withdrawable_fee_a, transfer_fee_a)
              /\ NoWrapA => call.withdrawable_fee_a
                              = position.fee_owed_a + call.fee_owed_delta_a
        /\ transfer_fee_b.is_some =>
              /\ call.quote.fee_owed_b = ExpectedNet(call.withdrawable_fee_b, transfer_fee_b)
              /\ NoWrapB => call.withdrawable_fee_b
                              = position.fee_owed_b + call.fee_owed_delta_b
    /\ fee_owed_a(616, SomeTransferFee(2000, 616)) = 492
    /\ fee_owed_b(849, SomeTransferFee(5000, 849)) = 424

\* A call with banked fees and accrued fees of token A, a schedule on A that
\* takes a fee below its cap, and no schedule on B.
C7_Witness ==
    /\ Ok
    /\ transfer_fee_a.is_some /\ ~transfer_fee_b.is_some
    /\ position.fee_owed_a > 0 /\ call.fee_owed_delta_a > 0 /\ NoWrapA
    /\ call.quote.fee_owed_a > 0
    /\ call.quote.fee_owed_a < call.withdrawable_fee_a - 1
    /\ call.withdrawable_fee_b > 0
    /\ call.quote.fee_owed_b = call.withdrawable_fee_b

----------------------------------------------------------------------------
\* C8: the adjustment is a no-op without a schedule (the returned amount is
\* banked + delta) and on a zero withdrawable amount (the returned amount is
\* zero for every schedule).
ScheduleSamples ==
    {SomeTransferFee(bps, cap) : bps \in {0, 1, 2000, 5000, BPS_DENOMINATOR},
                                 cap \in {0, 1, U128_MAX}}

C8_AdjustmentNeutralCases ==
    /\ Ok =>
        /\ ~transfer_fee_a.is_some =>
              /\ call.quote.fee_owed_a = call.withdrawable_fee_a
              /\ NoWrapA => call.quote.fee_owed_a
                              = position.fee_owed_a + call.fee_owed_delta_a
        /\ ~transfer_fee_b.is_some =>
              /\ call.quote.fee_owed_b = call.withdrawable_fee_b
              /\ NoWrapB => call.quote.fee_owed_b
                              = position.fee_owed_b + call.fee_owed_delta_b
        /\ (position.fee_owed_a = 0 /\ call.fee_owed_delta_a = 0)
              => call.quote.fee_owed_a = 0
        /\ (position.fee_owed_b = 0 /\ call.fee_owed_delta_b = 0)
              => call.quote.fee_owed_b = 0
    /\ \A schedule \in ScheduleSamples :
          fee_owed_a(0, schedule) = 0 /\ fee_owed_b(0, schedule) = 0

\* A call with no schedule on A and fees banked and accrued, and a schedule
\* on B with nothing to withdraw.
C8_Witness ==
    /\ Ok
    /\ ~transfer_fee_a.is_some
    /\ position.fee_owed_a > 0 /\ call.fee_owed_delta_a > 0
    /\ call.quote.fee_owed_a = position.fee_owed_a + call.fee_owed_delta_a
    /\ transfer_fee_b.is_some
    /\ position.fee_owed_b = 0 /\ call.fee_owed_delta_b = 0
    /\ call.quote.fee_owed_b = 0

----------------------------------------------------------------------------
\* C9: when banked + delta exceeds the narrow width, the withdrawable amount
\* is never the wrapped sum (the call fails or the amount is the saturated
\* maximum), so without a transfer fee the returned amount is never below
\* the banked amount.
C9_BankingNeverWraps ==
    (Returned /\ call.outcome # "panic_narrow") =>
        /\ ~NoWrapA => (~Ok \/ call.withdrawable_fee_a = U128_MAX)
        /\ ~NoWrapB => (~Ok \/ call.withdrawable_fee_b = U128_MAX)
        /\ (Ok /\ ~transfer_fee_a.is_some) => call.quote.fee_owed_a >= position.fee_owed_a
        /\ (Ok /\ ~transfer_fee_b.is_some) => call.quote.fee_owed_b >= position.fee_owed_b

----------------------------------------------------------------------------
\* C10: the two tokens are computed independently and identically:
\* exchanging all A-side inputs with the B-side inputs exchanges the two
\* returned amounts and keeps how the call ends, and a returned fee_owed_a
\* does not depend on the B-side inputs.
SwapWhirlpool(w) ==
    [tick_current_index |-> w.tick_current_index,
     fee_growth_global_a |-> w.fee_growth_global_b,
     fee_growth_global_b |-> w.fee_growth_global_a]
SwapPosition(p) ==
    [liquidity |-> p.liquidity,
     tick_lower_index |-> p.tick_lower_index,
     tick_upper_index |-> p.tick_upper_index,
     fee_growth_checkpoint_a |-> p.fee_growth_checkpoint_b,
     fee_owed_a |-> p.fee_owed_b,
     fee_growth_checkpoint_b |-> p.fee_growth_checkpoint_a,
     fee_owed_b |-> p.fee_owed_a]
SwapTick(t) ==
    [fee_growth_outside_a |-> t.fee_growth_outside_b,
     fee_growth_outside_b |-> t.fee_growth_outside_a]

Swapped(overflow_checks) ==
    collect_fees_quote(SwapWhirlpool(whirlpool), SwapPosition(position),
                       SwapTick(tick_lower), SwapTick(tick_upper),
                       transfer_fee_b, transfer_fee_a, overflow_checks)

\* The same call with every B-side input cleared
WithoutB(overflow_checks) ==
    collect_fees_quote([whirlpool EXCEPT !.fee_growth_global_b = 0],
                       [position EXCEPT !.fee_growth_checkpoint_b = 0, !.fee_owed_b = 0],
                       [tick_lower EXCEPT !.fee_growth_outside_b = 0],
                       [tick_upper EXCEPT !.fee_growth_outside_b = 0],
                       transfer_fee_a, NoTransferFee, overflow_checks)

C10_TokensIndependentAndIdentical ==
    Returned =>
        /\ \E overflow_checks \in BOOLEAN :
              LET s == Swapped(overflow_checks)
              IN /\ s.outcome = call.outcome
                 /\ s.quote.fee_owed_a = call.quote.fee_owed_b
                 /\ s.quote.fee_owed_b = call.quote.fee_owed_a
                 /\ s.fee_owed_delta_a = call.fee_owed_delta_b
                 /\ s.fee_owed_delta_b = call.fee_owed_delta_a
        /\ Ok => /\ \E overflow_checks \in BOOLEAN : WithoutB(overflow_checks).outcome = "ok"
                 /\ \A overflow_checks \in BOOLEAN :
                       LET r == WithoutB(overflow_checks)
                       IN r.outcome = "ok" => r.quote.fee_owed_a = call.quote.fee_owed_a

\* A call where both tokens accrue fees, with different inputs, schedules
\* and results on the two sides.
C10_Witness ==
    /\ Ok
    /\ call.fee_owed_delta_a > 0 /\ call.fee_owed_delta_b > 0
    /\ call.fee_owed_delta_a # call.fee_owed_delta_b
    /\ transfer_fee_a.is_some /\ ~transfer_fee_b.is_some
    /\ call.quote.fee_owed_a # call.quote.fee_owed_b
    /\ whirlpool.fee_growth_global_a # whirlpool.fee_growth_global_b

====
